---- MODULE Spec2Model ----
(***************************************************************************)
(* Bonding-curve pricing and quote engine of the friendtech platform:      *)
(* AdvancedBondingCurveCalculator (lib/bondingCurve) and PricingEngine     *)
(* (lib/pricingEngine).                                                    *)
(*                                                                         *)
(* Numbers.  A JavaScript number is modelled as an exact rational          *)
(* [t |-> "num", n, d] or one of the special values NaN, +Infinity,        *)
(* -Infinity, which the code produces by dividing by a zero price.  Every  *)
(* bigint of the model is far below 2^53, where Number(bigint) is exact.   *)
(* The fixed-point unit (10^18 in the source) is WEI; it is scaled down so *)
(* that prices fit the integers of the model checker, and nothing in the   *)
(* model depends on its value.                                             *)
(* Time is counted in whole hours since the epoch.                         *)
(***************************************************************************)
EXTENDS Integers, Naturals, Sequences, FiniteSets, TLC

\* ---------------------------------------------------------------- bounds
\* fixed-point unit standing for 10^18
WEI == 100
\* supply cap of the large curve profile
Cap == 120
\* supply cap of the small curve profile
TinyCap == 6
\* largest trade amount tried on the large profile
MaxTrade == 2
\* number of 24-hour clock ticks
MaxDays == 2

\* ------------------------------------------------------- number helpers
RECURSIVE Gcd(_, _)
Gcd(a, b) == IF b = 0 THEN a ELSE Gcd(b, a % b)

Abs(x) == IF x < 0 THEN 0 - x ELSE x

\* the rational n/d in lowest terms, d > 0
Num(n, d) ==
  LET s == IF d < 0 THEN 0 - 1 ELSE 1
      g == Gcd(Abs(n), Abs(d))
  IN  [t |-> "num", n |-> (s * n) \div g, d |-> (s * d) \div g]

NaN == [t |-> "nan", n |-> 0, d |-> 1]

Infinity(sign) == [t |-> "inf", n |-> sign, d |-> 1]

IsNum(x) == x.t = "num"

Sign(x) == IF x > 0 THEN 1 ELSE IF x < 0 THEN 0 - 1 ELSE 0

\* JavaScript a * b ; finite operands are cross-reduced before multiplying
Mul(a, b) ==
  IF a.t = "nan" \/ b.t = "nan" THEN NaN
  ELSE IF a.t = "inf" \/ b.t = "inf"
       THEN IF a.n = 0 \/ b.n = 0 THEN NaN ELSE Infinity(Sign(a.n) * Sign(b.n))
  ELSE LET g1 == Gcd(Abs(a.n), b.d)
           g2 == Gcd(Abs(b.n), a.d)
       IN  Num((a.n \div g1) * (b.n \div g2), (a.d \div g2) * (b.d \div g1))

RECURSIVE Pow(_, _)
Pow(a, e) == IF e <= 0 THEN Num(1, 1) ELSE Mul(a, Pow(a, e - 1))

\* JavaScript a / b : x/0 is +-Infinity, 0/0 is NaN
Div(a, b) ==
  IF ~IsNum(a) \/ ~IsNum(b) THEN NaN
  ELSE IF b.n = 0
       THEN IF a.n = 0 THEN NaN ELSE Infinity(Sign(a.n))
       ELSE Mul(a, Num(b.d, b.n))

\* JavaScript a > b : false whenever an operand is NaN
Gt(a, b) ==
  IF a.t = "nan" \/ b.t = "nan" THEN FALSE
  ELSE IF a.t = "inf" THEN a.n > 0 /\ ~(b.t = "inf" /\ b.n > 0)
  ELSE IF b.t = "inf" THEN b.n < 0
  ELSE a.n * b.d > b.n * a.d

Lt(a, b) == Gt(b, a)

\* Math.max / Math.min : NaN if an operand is NaN
MathMax(a, b) ==
  IF a.t = "nan" \/ b.t = "nan" THEN NaN ELSE IF Gt(b, a) THEN b ELSE a

MathMin(a, b) ==
  IF a.t = "nan" \/ b.t = "nan" THEN NaN ELSE IF Lt(b, a) THEN b ELSE a

\* Math.floor of a finite number
MathFloor(a) == a.n \div a.d

Lcm(a, b) == (a \div Gcd(a, b)) * b

\* JavaScript -a
Neg(a) == IF a.t = "nan" THEN NaN ELSE [a EXCEPT !.n = 0 - a.n]

\* JavaScript a + b : Infinity + -Infinity is NaN
Add(a, b) ==
  IF a.t = "nan" \/ b.t = "nan" THEN NaN
  ELSE IF a.t = "inf" THEN (IF b.t = "inf" /\ b.n # a.n THEN NaN ELSE a)
  ELSE IF b.t = "inf" THEN b
  ELSE LET l == Lcm(a.d, b.d)
       IN  Num(a.n * (l \div a.d) + b.n * (l \div b.d), l)

\* JavaScript a - b
Sub(a, b) == Add(a, Neg(b))

\* ------------------------------------------------------------ optionals
\* an optional argument is <<>> (undefined) or <<value>>
None == <<>>

Some(x) == <<x>>

IsSome(o) == Len(o) > 0

Val(o) == o[1]

\* --------------------------------------------------- calculator profiles
\* constructor arguments of AdvancedBondingCurveCalculator
\* the profile with the default slippage and multipliers; it is also the
\* calculator a PricingEngine constructs for itself
LargeCurve ==
  [baseK |-> Num(1, 1), totalSupply |-> Cap, maxSlippage |-> Num(5, 100),
   creatorMultiplier |-> Num(1, 1), volumeMultiplier |-> Num(1, 1),
   timeDecayFactor |-> Num(1, 4)]

\* a profile in the style of newCoinBondingCurve, with a low k and a low cap
SmallCurve ==
  [baseK |-> Num(1, 1000), totalSupply |-> TinyCap, maxSlippage |-> Num(8, 100),
   creatorMultiplier |-> Num(12, 10), volumeMultiplier |-> Num(11, 10),
   timeDecayFactor |-> Num(1, 2)]

Curves == {LargeCurve, SmallCurve}

\* a profile configured with a maxSlippage above the 10% ceiling
LooseCurve ==
  [baseK |-> Num(1, 1000), totalSupply |-> TinyCap, maxSlippage |-> Num(20, 100),
   creatorMultiplier |-> Num(1, 1), volumeMultiplier |-> Num(1, 1),
   timeDecayFactor |-> Num(1, 2)]

Profiles == Curves \cup {LooseCurve}

\* CreatorCoin snapshots (only the fields the engine reads)
Coin(mc, change, vol, circ, price) ==
  [marketCap |-> mc, priceChange24h |-> change, tradingVolume24h |-> vol,
   circulatingSupply |-> circ, currentPrice |-> price]

Coins ==
  { Coin(WEI \div 2, Num(3, 1), 0, 10, 5),
    Coin(50 * WEI, Num(0 - 12, 1), 50 * WEI, 40, 300),
    Coin(2000 * WEI, Num(60, 1), 500 * WEI, 70, 1000) }

OptCoins == {None} \cup {Some(c) : c \in Coins}

\* 24h volumes: undefined, 0, below one unit, between, above 100, above 1000
OptVolumes ==
  {None} \cup {Some(v) : v \in {0, WEI \div 2, 50 * WEI, 500 * WEI, 5000 * WEI}}

\* lastTradeTime arguments: undefined, the epoch, one hour after the epoch
OptTimes == {None, Some(0), Some(1)}

\* market caps and volumes on both sides of every threshold of the slippage
\* and fee rules: 1 and 10 units of market cap, 100 and 1000 units of volume
SignalCoins ==
  { Coin(mc, Num(0, 1), 0, 10, 5) : mc \in {0, WEI \div 2, WEI, 5 * WEI, 10 * WEI, 50 * WEI} }

OptSignalCoins == {None} \cup {Some(c) : c \in SignalCoins}

OptSignalVolumes == OptVolumes \cup {Some(100 * WEI), Some(1000 * WEI)}

\* ------------------------------------------------------ call outcomes
Return(v) == [ok |-> TRUE, err |-> "", val |-> v]

Throw(e) == [ok |-> FALSE, err |-> e, val |-> 0]

InvalidSupplyError == "Supply cannot exceed total supply"

InvalidTradeError == "Invalid trade amount"

SlippageExceededError == "Price impact too high"

\* the error calculatePricingData rethrows from its catch block
PricingDataError == "Failed to calculate pricing data"

\* BigInt(NaN) and BigInt(Infinity) throw a RangeError
RangeError == "RangeError"

\* Number(x) / 1e18
WholeUnits(x) == Num(x, WEI)

\* `if (tradingVolume24h)` : undefined and 0n are both falsy
Truthy(vol) == IsSome(vol) /\ Val(vol) # 0

\* (Date.now() - lastTradeTime.getTime()) / (1000 * 60 * 60)
hoursSinceLastTrade(clock, lastTradeTime) == clock - Val(lastTradeTime)

\* ------------------------------------- AdvancedBondingCurveCalculator
calculateDynamicKNoFloor(c, coinData, tradingVolume24h, lastTradeTime, clock) ==
  LET k0 == c.baseK
      k1 == IF Truthy(tradingVolume24h)
            THEN LET volumeETH == WholeUnits(Val(tradingVolume24h))
                 IN  IF Gt(volumeETH, Num(100, 1)) THEN Mul(k0, Num(12, 10))
                     ELSE IF Lt(volumeETH, Num(1, 1)) THEN Mul(k0, Num(8, 10))
                     ELSE k0
            ELSE k0
      k2 == IF IsSome(lastTradeTime)
            THEN LET h == hoursSinceLastTrade(clock, lastTradeTime)
                 IN  IF h > 24 THEN Mul(k1, Pow(c.timeDecayFactor, h \div 24)) ELSE k1
            ELSE k1
      k3 == IF IsSome(coinData)
            THEN IF Gt(WholeUnits(Val(coinData).marketCap), Num(1000, 1))
                 THEN Mul(k2, Num(11, 10)) ELSE k2
            ELSE k2
  IN  k3

calculateDynamicK(c, coinData, tradingVolume24h, lastTradeTime, clock) ==
  LET k0 == c.baseK
      k1 == IF Truthy(tradingVolume24h)
            THEN LET volumeETH == WholeUnits(Val(tradingVolume24h))
                 IN  IF Gt(volumeETH, Num(100, 1)) THEN Mul(k0, Num(12, 10))
                     ELSE IF Lt(volumeETH, Num(1, 1)) THEN Mul(k0, Num(8, 10))
                     ELSE k0
            ELSE k0
      k2 == IF IsSome(lastTradeTime)
            THEN LET h == hoursSinceLastTrade(clock, lastTradeTime)
                 IN  IF h > 24 THEN Mul(k1, Pow(c.timeDecayFactor, h \div 24)) ELSE k1
            ELSE k1
      k3 == IF IsSome(coinData)
            THEN IF Gt(WholeUnits(Val(coinData).marketCap), Num(1000, 1))
                 THEN Mul(k2, Num(11, 10)) ELSE k2
            ELSE k2
  IN  MathMax(k3, Mul(c.baseK, Num(1, 10)))

\* dynamicK * supply^2 / (totalSupply - supply), the two multipliers, then
\* BigInt(Math.floor(volumePrice * 1e18))
curvePrice(c, supply, square, dynamicK) ==
  LET basePrice == Div(Mul(dynamicK, Num(square, 1)), Num(c.totalSupply - supply, 1))
      creatorPrice == Mul(basePrice, c.creatorMultiplier)
      volumePrice == Mul(creatorPrice, c.volumeMultiplier)
      scaled == Mul(volumePrice, Num(WEI, 1))
  IN  IF IsNum(scaled) THEN Return(MathFloor(scaled)) ELSE Throw(RangeError)

\* supply ^ 2 (bitwise xor) in place of supply ** 2
XorTwo(x) == IF (x \div 2) % 2 = 1 THEN x - 2 ELSE x + 2

calculatePriceOpenCap(c, supply, coinData, tradingVolume24h, lastTradeTime, clock) ==
  IF supply > c.totalSupply
  THEN Throw(InvalidSupplyError)
  ELSE curvePrice(c, supply, supply * supply,
         calculateDynamicK(c, coinData, tradingVolume24h, lastTradeTime, clock))

calculatePriceXor(c, supply, coinData, tradingVolume24h, lastTradeTime, clock) ==
  IF supply >= c.totalSupply
  THEN Throw(InvalidSupplyError)
  ELSE curvePrice(c, supply, XorTwo(supply),
         calculateDynamicK(c, coinData, tradingVolume24h, lastTradeTime, clock))

calculatePrice(c, supply, coinData, tradingVolume24h, lastTradeTime, clock) ==
  IF supply >= c.totalSupply
  THEN Throw(InvalidSupplyError)
  ELSE curvePrice(c, supply, supply * supply,
         calculateDynamicK(c, coinData, tradingVolume24h, lastTradeTime, clock))

\* Math.min(adjustedSlippage, 0.1) left out
calculateAdjustedMaxSlippageNoCap(c, coinData, tradingVolume24h) ==
  LET a0 == c.maxSlippage
      a1 == IF Truthy(tradingVolume24h)
               /\ Gt(WholeUnits(Val(tradingVolume24h)), Num(100, 1))
            THEN Mul(a0, Num(8, 10)) ELSE a0
      a2 == IF IsSome(coinData)
               /\ Lt(WholeUnits(Val(coinData).marketCap), Num(10, 1))
            THEN Mul(a1, Num(15, 10)) ELSE a1
  IN  a2

calculateAdjustedMaxSlippage(c, coinData, tradingVolume24h) ==
  LET a0 == c.maxSlippage
      a1 == IF Truthy(tradingVolume24h)
               /\ Gt(WholeUnits(Val(tradingVolume24h)), Num(100, 1))
            THEN Mul(a0, Num(8, 10)) ELSE a0
      a2 == IF IsSome(coinData)
               /\ Lt(WholeUnits(Val(coinData).marketCap), Num(10, 1))
            THEN Mul(a1, Num(15, 10)) ELSE a1
  IN  MathMin(a2, Num(1, 10))

\* the volume tiers tested in the other order
calculateDynamicFeeRateTiers(c, coinData, tradingVolume24h) ==
  LET f0 == Num(1, 100)
      f1 == IF Truthy(tradingVolume24h)
            THEN LET volumeETH == WholeUnits(Val(tradingVolume24h))
                 IN  IF Gt(volumeETH, Num(100, 1)) THEN Mul(f0, Num(75, 100))
                     ELSE IF Gt(volumeETH, Num(1000, 1)) THEN Mul(f0, Num(5, 10))
                     ELSE f0
            ELSE f0
      f2 == IF IsSome(coinData)
               /\ Lt(WholeUnits(Val(coinData).marketCap), Num(1, 1))
            THEN Mul(f1, Num(2, 1)) ELSE f1
  IN  MathMax(f2, Num(5, 1000))

calculateDynamicFeeRate(c, coinData, tradingVolume24h) ==
  LET f0 == Num(1, 100)
      f1 == IF Truthy(tradingVolume24h)
            THEN LET volumeETH == WholeUnits(Val(tradingVolume24h))
                 IN  IF Gt(volumeETH, Num(1000, 1)) THEN Mul(f0, Num(5, 10))
                     ELSE IF Gt(volumeETH, Num(100, 1)) THEN Mul(f0, Num(75, 100))
                     ELSE f0
            ELSE f0
      f2 == IF IsSome(coinData)
               /\ Lt(WholeUnits(Val(coinData).marketCap), Num(1, 1))
            THEN Mul(f1, Num(2, 1)) ELSE f1
  IN  MathMax(f2, Num(5, 1000))

\* Math.floor(Date.now() / 1000), the clock being counted in hours
SecondsOf(clock) == clock * 3600

\* the random delay also taken off minimumReceived
tradeQuoteJittered(tradeAmount, currentPrice, priceImpact, feeRate, clock, random) ==
  LET inputAmount == tradeAmount
      outputAmount == (tradeAmount * currentPrice) \div WEI
      fee == (outputAmount * MathFloor(Mul(feeRate, Num(10000, 1)))) \div 10000
      minimumReceived == outputAmount - fee - MathFloor(Mul(random, Num(300, 1)))
      baseDeadline == 1800
      randomDelay == MathFloor(Mul(random, Num(300, 1)))
      deadline == SecondsOf(clock) + baseDeadline + randomDelay
  IN  [inputAmount |-> inputAmount, outputAmount |-> outputAmount,
       priceImpact |-> priceImpact, minimumReceived |-> minimumReceived,
       fee |-> fee, deadline |-> deadline]

\* the fee computed but not taken off minimumReceived
tradeQuoteFeeKept(tradeAmount, currentPrice, priceImpact, feeRate, clock, random) ==
  LET inputAmount == tradeAmount
      outputAmount == (tradeAmount * currentPrice) \div WEI
      fee == (outputAmount * MathFloor(Mul(feeRate, Num(10000, 1)))) \div 10000
      minimumReceived == outputAmount
      baseDeadline == 1800
      randomDelay == MathFloor(Mul(random, Num(300, 1)))
      deadline == SecondsOf(clock) + baseDeadline + randomDelay
  IN  [inputAmount |-> inputAmount, outputAmount |-> outputAmount,
       priceImpact |-> priceImpact, minimumReceived |-> minimumReceived,
       fee |-> fee, deadline |-> deadline]

\* Date.now() used as if it were in seconds
tradeQuoteMillis(tradeAmount, currentPrice, priceImpact, feeRate, clock, random) ==
  LET inputAmount == tradeAmount
      outputAmount == (tradeAmount * currentPrice) \div WEI
      fee == (outputAmount * MathFloor(Mul(feeRate, Num(10000, 1)))) \div 10000
      minimumReceived == outputAmount - fee
      baseDeadline == 1800
      randomDelay == MathFloor(Mul(random, Num(300, 1)))
      deadline == SecondsOf(clock) * 1000 + baseDeadline + randomDelay
  IN  [inputAmount |-> inputAmount, outputAmount |-> outputAmount,
       priceImpact |-> priceImpact, minimumReceived |-> minimumReceived,
       fee |-> fee, deadline |-> deadline]

\* the amounts, the fee and the deadline of a quote (the end of
\* calculateTradePrice, after the slippage check)
tradeQuote(tradeAmount, currentPrice, priceImpact, feeRate, clock, random) ==
  LET inputAmount == tradeAmount
      outputAmount == (tradeAmount * currentPrice) \div WEI
      fee == (outputAmount * MathFloor(Mul(feeRate, Num(10000, 1)))) \div 10000
      minimumReceived == outputAmount - fee
      baseDeadline == 1800
      randomDelay == MathFloor(Mul(random, Num(300, 1)))
      deadline == SecondsOf(clock) + baseDeadline + randomDelay
  IN  [inputAmount |-> inputAmount, outputAmount |-> outputAmount,
       priceImpact |-> priceImpact, minimumReceived |-> minimumReceived,
       fee |-> fee, deadline |-> deadline]

\* outcome of calculateTradePrice; priceCalls counts the calculatePrice
\* calls made before the function returned or threw
TradeOutcome(res, calls) == [ok |-> res.ok, err |-> res.err, val |-> res.val, priceCalls |-> calls]

calculateTradePricePostTrade(c, currentSupply, tradeAmount, isBuy, coinData, tradingVolume24h, lastTradeTime, clock, random) ==
  LET newSupply == IF isBuy THEN currentSupply + tradeAmount
                   ELSE currentSupply - tradeAmount
  IN
  IF newSupply < 0 \/ newSupply > c.totalSupply
  THEN TradeOutcome(Throw(InvalidTradeError), 0)
  ELSE
  CHOOSE outcome \in
    { IF ~cur.ok THEN TradeOutcome(cur, 1)
      ELSE IF ~new.ok THEN TradeOutcome(new, 2)
      ELSE
      LET currentPrice == cur.val
          newPrice == new.val
          priceImpact == IF isBuy
                         THEN Div(Num(newPrice - currentPrice, 1), Num(currentPrice, 1))
                         ELSE Div(Num(currentPrice - newPrice, 1), Num(currentPrice, 1))
          adjustedMaxSlippage == calculateAdjustedMaxSlippage(c, coinData, tradingVolume24h)
      IN
      IF Gt(priceImpact, adjustedMaxSlippage)
      THEN TradeOutcome(Throw(SlippageExceededError), 2)
      ELSE
      TradeOutcome(Return(tradeQuote(tradeAmount, IF isBuy THEN currentPrice ELSE newPrice, priceImpact,
                     calculateDynamicFeeRate(c, coinData, tradingVolume24h), clock, random)), 2) :
      cur \in {calculatePrice(c, currentSupply, coinData, tradingVolume24h, lastTradeTime, clock)},
      new \in {calculatePrice(c, newSupply, coinData, tradingVolume24h, lastTradeTime, clock)} } : TRUE

\* cur and new are the results of the two calculatePrice calls
calculateTradePrice(c, currentSupply, tradeAmount, isBuy, coinData, tradingVolume24h, lastTradeTime, clock, random) ==
  LET newSupply == IF isBuy THEN currentSupply + tradeAmount
                   ELSE currentSupply - tradeAmount
  IN
  IF newSupply < 0 \/ newSupply > c.totalSupply
  THEN TradeOutcome(Throw(InvalidTradeError), 0)
  ELSE
  CHOOSE outcome \in
    { IF ~cur.ok THEN TradeOutcome(cur, 1)
      ELSE IF ~new.ok THEN TradeOutcome(new, 2)
      ELSE
      LET currentPrice == cur.val
          newPrice == new.val
          priceImpact == IF isBuy
                         THEN Div(Num(newPrice - currentPrice, 1), Num(currentPrice, 1))
                         ELSE Div(Num(currentPrice - newPrice, 1), Num(currentPrice, 1))
          adjustedMaxSlippage == calculateAdjustedMaxSlippage(c, coinData, tradingVolume24h)
      IN
      IF Gt(priceImpact, adjustedMaxSlippage)
      THEN TradeOutcome(Throw(SlippageExceededError), 2)
      ELSE
      TradeOutcome(Return(tradeQuote(tradeAmount, currentPrice, priceImpact,
                     calculateDynamicFeeRate(c, coinData, tradingVolume24h), clock, random)), 2) :
      cur \in {calculatePrice(c, currentSupply, coinData, tradingVolume24h, lastTradeTime, clock)},
      new \in {calculatePrice(c, newSupply, coinData, tradingVolume24h, lastTradeTime, clock)} } : TRUE

\* maxPrice = currentPrice * BigInt(Math.floor((1 + maxPriceImpact) * 1e18)) / BigInt(1e18)
maxPriceOf(currentPrice, maxPriceImpact) ==
  (currentPrice * MathFloor(Mul(Num(maxPriceImpact.n + maxPriceImpact.d, maxPriceImpact.d),
                                Num(WEI, 1)))) \div WEI

\* one iteration of the binary search, after calculatePrice(supply + mid)
\* returned newPrice
bisectStrict(f, mid, newPrice) ==
  IF newPrice < f.maxPrice
  THEN [f EXCEPT !.optimalSize = mid, !.low = mid + 1]
  ELSE [f EXCEPT !.high = mid - 1]

bisect(f, mid, newPrice) ==
  IF newPrice <= f.maxPrice
  THEN [f EXCEPT !.optimalSize = mid, !.low = mid + 1]
  ELSE [f EXCEPT !.high = mid - 1]

\* ------------------------------------------------------- PricingEngine
generateRecommendationNoGate(priceDifference, liquidityScore) ==
  IF Gt(priceDifference, Num(1, 10)) THEN "buy"
  ELSE IF Lt(priceDifference, Num(0 - 1, 10)) THEN "sell"
  ELSE "hold"

generateRecommendation(priceDifference, liquidityScore) ==
  IF Gt(priceDifference, Num(1, 10)) /\ Gt(liquidityScore, Num(50, 1)) THEN "buy"
  ELSE IF Lt(priceDifference, Num(0 - 1, 10)) /\ Gt(liquidityScore, Num(50, 1)) THEN "sell"
  ELSE "hold"

\* Math.abs
MathAbs(x) == IF x.t = "num" THEN Num(Abs(x.n), x.d) ELSE IF x.t = "inf" THEN Infinity(1) ELSE NaN

\* riskLevel === 'low' ? 'medium' : 'high'
escalate(level) == IF level = "low" THEN "medium" ELSE "high"

\* the four checks of assessRisk, each on the locals f = (riskLevel, riskFactors)
checkVolatility(f, volatilityScore) ==
  IF Gt(volatilityScore, Num(70, 1))
  THEN [f EXCEPT !.riskFactors = Append(@, "High price volatility"), !.riskLevel = "high"]
  ELSE IF Gt(volatilityScore, Num(40, 1))
  THEN [f EXCEPT !.riskFactors = Append(@, "Moderate price volatility"), !.riskLevel = "medium"]
  ELSE f

checkLiquidityFlat(f, liquidityScore) ==
  IF Lt(liquidityScore, Num(30, 1))
  THEN [f EXCEPT !.riskFactors = Append(@, "Low liquidity"), !.riskLevel = "medium"]
  ELSE f

checkLiquidity(f, liquidityScore) ==
  IF Lt(liquidityScore, Num(30, 1))
  THEN [f EXCEPT !.riskFactors = Append(@, "Low liquidity"), !.riskLevel = escalate(@)]
  ELSE f

checkExtremeMove(f, coin) ==
  IF Gt(MathAbs(coin.priceChange24h), Num(50, 1))
  THEN [f EXCEPT !.riskFactors = Append(@, "Extreme price movement"), !.riskLevel = "high"]
  ELSE f

checkLowVolumeInclusive(f, coin) ==
  IF coin.tradingVolume24h <= WEI
  THEN [f EXCEPT !.riskFactors = Append(@, "Low trading volume"), !.riskLevel = escalate(@)]
  ELSE f

checkLowVolume(f, coin) ==
  IF coin.tradingVolume24h < WEI
  THEN [f EXCEPT !.riskFactors = Append(@, "Low trading volume"), !.riskLevel = escalate(@)]
  ELSE f

riskResultBare(f) == [level |-> f.riskLevel, factors |-> f.riskFactors]

\* if (riskFactors.length === 0) riskFactors.push('Stable market conditions')
riskResult(f) ==
  [level |-> f.riskLevel,
   factors |-> IF Len(f.riskFactors) = 0 THEN <<"Stable market conditions">>
               ELSE f.riskFactors]

\* assessRisk as one call: the four checks in order, then the result
assessRisk(coin, volatilityScore, liquidityScore) ==
  riskResult(checkLowVolume(checkExtremeMove(checkLiquidity(checkVolatility(
    [op |-> "assessRisk", riskFactors |-> <<>>, riskLevel |-> "low"],
    volatilityScore), liquidityScore), coin), coin))

\* |currentVolume - averageVolume| / averageVolume * 100, with
\* averageVolume = currentVolume * 0.8 : NaN (0/0) when the volume is 0
calculateVolumeVolatility(coin) ==
  LET currentVolume == Num(coin.tradingVolume24h, 1)
      averageVolume == Mul(currentVolume, Num(8, 10))
  IN  Mul(Div(MathAbs(Sub(currentVolume, averageVolume)), averageVolume), Num(100, 1))

calculateVolumeTrend(coin) == Mul(coin.priceChange24h, Num(5, 10))

calculateMomentum(coin) == Mul(coin.priceChange24h, Num(3, 10))

\* calculateLiquidityScore of the calculator: volume, market cap, activity
\* and price stability points, capped at 100
calculateLiquidityScore(coinData, tradingVolume24h, lastTradeTime, clock) ==
  LET volumePoints == IF Truthy(tradingVolume24h)
                      THEN MathMin(Div(WholeUnits(Val(tradingVolume24h)), Num(10, 1)),
                                   Num(40, 1))
                      ELSE Num(0, 1)
      marketCapPoints == IF IsSome(coinData)
                         THEN MathMin(Div(WholeUnits(Val(coinData).marketCap), Num(100, 1)),
                                      Num(30, 1))
                         ELSE Num(0, 1)
      activityPoints == IF IsSome(lastTradeTime)
                        THEN IF hoursSinceLastTrade(clock, lastTradeTime) < 1 THEN 20
                             ELSE IF hoursSinceLastTrade(clock, lastTradeTime) < 24 THEN 15
                             ELSE IF hoursSinceLastTrade(clock, lastTradeTime) < 168 THEN 10
                             ELSE 5
                        ELSE 0
      stabilityPoints == IF IsSome(coinData)
                         THEN IF Lt(MathAbs(Val(coinData).priceChange24h), Num(5, 100)) THEN 10
                              ELSE IF Lt(MathAbs(Val(coinData).priceChange24h), Num(1, 10)) THEN 7
                              ELSE IF Lt(MathAbs(Val(coinData).priceChange24h), Num(2, 10)) THEN 4
                              ELSE 1
                         ELSE 0
  IN  MathMin(Add(Add(Add(volumePoints, marketCapPoints), Num(activityPoints, 1)),
                  Num(stabilityPoints, 1)), Num(100, 1))

\* calculateLiquidityScore of PricingEngine (the calculator has a function
\* of the same name)
PricingEngine_calculateLiquidityScore(coin) ==
  LET volumeScore == MathMin(Div(WholeUnits(coin.tradingVolume24h), Num(1000, 1)), Num(40, 1))
      marketCapScore == MathMin(Div(WholeUnits(coin.marketCap), Num(10000, 1)), Num(30, 1))
      priceStabilityScore == MathMax(Num(0, 1), Sub(Num(20, 1), MathAbs(coin.priceChange24h)))
      supplyScore == MathMin(Div(WholeUnits(coin.circulatingSupply), Num(1000000, 1)), Num(10, 1))
  IN  MathMin(Add(Add(Add(volumeScore, marketCapScore), priceStabilityScore), supplyScore),
              Num(100, 1))

calculateVolatilityScore(coin) ==
  LET priceChange == MathAbs(coin.priceChange24h)
      volumeVolatility == calculateVolumeVolatility(coin)
  IN  MathMin(Add(Mul(priceChange, Num(2, 1)), volumeVolatility), Num(100, 1))

calculateTrendScore(coin) ==
  LET priceChange == coin.priceChange24h
      volumeTrend == calculateVolumeTrend(coin)
      momentum == calculateMomentum(coin)
  IN  MathMax(Num(0 - 100, 1),
              MathMin(Num(100, 1), Add(Add(priceChange, volumeTrend), momentum)))

calculateConfidence(coin, priceDifference, liquidityScore) ==
  LET priceDifferenceConfidence == MathMin(Mul(MathAbs(priceDifference), Num(200, 1)), Num(50, 1))
      liquidityConfidence == Mul(liquidityScore, Num(3, 10))
      volumeConfidence == MathMin(Div(WholeUnits(coin.tradingVolume24h), Num(100, 1)), Num(20, 1))
  IN  MathMin(Add(Add(priceDifferenceConfidence, liquidityConfidence), volumeConfidence),
              Num(100, 1))

\* BigInt(Math.floor(x)) : a RangeError unless x is finite
BigIntFloor(x) == IF IsNum(x) THEN Return(MathFloor(x)) ELSE Throw(RangeError)

\* calculateOptimalTradeSize of PricingEngine
PricingEngine_calculateOptimalTradeSize(coin, liquidityScore) ==
  LET baseSize == Num(coin.circulatingSupply, 1000)
      liquidityMultiplier == Div(liquidityScore, Num(100, 1))
      optimalSize == Mul(baseSize, liquidityMultiplier)
  IN  BigIntFloor(optimalSize)

\* 1 + trend * weight + (Math.random() - 0.5) * (volatility / scale)
targetMultiplier(trend, volatility, weight, scale, random) ==
  Add(Add(Num(1, 1), Mul(trend, weight)),
      Mul(Sub(random, Num(5, 10)), Div(volatility, Num(scale, 1))))

\* BigInt(Math.floor(Number(currentPrice) * multiplier)) for the three
\* horizons; each conversion is made once and bound
\* draws : the three values Math.random() returns, in call order
priceTargetsOf(currentPrice, trend, volatility, draws) ==
  CHOOSE targets \in
    { IF ~oneHour.ok THEN oneHour
      ELSE IF ~twentyFourHours.ok THEN twentyFourHours
      ELSE IF ~sevenDays.ok THEN sevenDays
      ELSE Return([oneHour |-> oneHour.val, twentyFourHours |-> twentyFourHours.val,
                   sevenDays |-> sevenDays.val]) :
      oneHour \in {BigIntFloor(Mul(Num(currentPrice, 1),
                     targetMultiplier(trend, volatility, Num(1, 1000), 1000, draws[1])))},
      twentyFourHours \in {BigIntFloor(Mul(Num(currentPrice, 1),
                     targetMultiplier(trend, volatility, Num(1, 100), 100, draws[2])))},
      sevenDays \in {BigIntFloor(Mul(Num(currentPrice, 1),
                     targetMultiplier(trend, volatility, Num(5, 100), 10, draws[3])))} } : TRUE

generatePriceTargets(coin, currentPrice, draws) ==
  priceTargetsOf(currentPrice, calculateTrendScore(coin), calculateVolatilityScore(coin), draws)

\* the statements of calculatePricingData after the scores are known; every
\* local that is read more than once is computed once and bound
scoredBundle(coin, customPrice, liquidityScore, volatilityScore, trendScore, draws) ==
  CHOOSE bundle \in
    { IF ~optimalTradeSize.ok THEN optimalTradeSize
      ELSE IF ~priceTargets.ok THEN priceTargets
      ELSE Return([currentPrice |-> coin.currentPrice, zoraPrice |-> coin.currentPrice,
                   customPrice |-> customPrice, priceDifference |-> priceDifference,
                   liquidityScore |-> liquidityScore, volatilityScore |-> volatilityScore,
                   trendScore |-> trendScore,
                   recommendation |-> generateRecommendation(priceDifference, liquidityScore),
                   confidence |-> calculateConfidence(coin, priceDifference, liquidityScore),
                   optimalTradeSize |-> optimalTradeSize.val,
                   priceTarget1h |-> priceTargets.val.oneHour,
                   priceTarget24h |-> priceTargets.val.twentyFourHours,
                   priceTarget7d |-> priceTargets.val.sevenDays,
                   riskLevel |-> riskAssessment.level,
                   riskFactors |-> riskAssessment.factors]) :
      priceDifference \in {Div(Num(customPrice - coin.currentPrice, 1),
                                Num(coin.currentPrice, 1))},
      optimalTradeSize \in {PricingEngine_calculateOptimalTradeSize(coin, liquidityScore)},
      priceTargets \in {generatePriceTargets(coin, customPrice, draws)},
      riskAssessment \in {assessRisk(coin, volatilityScore, liquidityScore)} } : TRUE

\* the try block of calculatePricingData; c is the engine's own calculator,
\* and the last trade time handed to calculatePrice is `new Date()`
pricingBundle(c, coin, clock, draws) ==
  CHOOSE bundle \in
    { IF ~customPrice.ok THEN customPrice
      ELSE scoredBundle(coin, customPrice.val, liquidityScore, volatilityScore,
                        trendScore, draws) :
      customPrice \in {calculatePrice(c, coin.circulatingSupply, Some(coin),
                                      Some(coin.tradingVolume24h), Some(clock), clock)},
      liquidityScore \in {PricingEngine_calculateLiquidityScore(coin)},
      volatilityScore \in {calculateVolatilityScore(coin)},
      trendScore \in {calculateTrendScore(coin)} } : TRUE

\* catch (error) { throw new Error('Failed to calculate pricing data') }
calculatePricingData(c, coin, clock, draws) ==
  CHOOSE out \in { IF tried.ok THEN tried ELSE Throw(PricingDataError) :
                   tried \in {pricingBundle(c, coin, clock, draws)} } : TRUE

\* coins.reduce((sum, coin) => sum + coin.marketCap, BigInt(0))
RECURSIVE totalMarketCap(_)
totalMarketCap(coins) ==
  IF Len(coins) = 0 THEN 0
  ELSE totalMarketCap(SubSeq(coins, 1, Len(coins) - 1)) + coins[Len(coins)].marketCap

\* coins.reduce((sum, coin) => sum + coin.tradingVolume24h, BigInt(0))
RECURSIVE totalVolume(_)
totalVolume(coins) ==
  IF Len(coins) = 0 THEN 0
  ELSE totalVolume(SubSeq(coins, 1, Len(coins) - 1)) + coins[Len(coins)].tradingVolume24h

\* coins.reduce((sum, coin) => sum + coin.priceChange24h, 0)
RECURSIVE totalPriceChange(_)
totalPriceChange(coins) ==
  IF Len(coins) = 0 THEN Num(0, 1)
  ELSE Add(totalPriceChange(SubSeq(coins, 1, Len(coins) - 1)), coins[Len(coins)].priceChange24h)

overallTrend(averagePriceChange) ==
  IF Gt(averagePriceChange, Num(5, 1)) THEN "bullish"
  ELSE IF Lt(averagePriceChange, Num(0 - 5, 1)) THEN "bearish"
  ELSE "neutral"

\* the quotient rounded to the nearest integer
averageTradeSizeRounded(volume, count) == (2 * volume + count) \div (2 * count)

\* totalVolume / BigInt(coins.length), a bigint division
averageTradeSize(volume, count) == volume \div count

\* the object literal of updateMarketConditions, for a list of count coins
conditionsOf(coins, count) ==
  LET averagePriceChange == Div(totalPriceChange(coins), Num(count, 1))
  IN  [overallTrend |-> overallTrend(averagePriceChange),
       marketCap |-> totalMarketCap(coins),
       totalVolume |-> totalVolume(coins),
       activeTraders |-> count,
       averageTradeSize |-> averageTradeSize(totalVolume(coins), count),
       priceVolatility |-> MathAbs(averagePriceChange)]

\* the totals written into the stored object, its average left as it was
storeConditionsInPlace(stored, conditions) ==
  IF IsSome(stored)
  THEN Some([conditions EXCEPT !.averageTradeSize = Val(stored).averageTradeSize])
  ELSE Some(conditions)

\* this.marketConditions = { ... } : the stored object is replaced
storeConditions(stored, conditions) == Some(conditions)

\* the count taken as `coins.length || 1`
updateMarketConditionsGuarded(stored, coins) ==
  [out |-> Return(0),
   marketConditions |->
     storeConditions(stored, conditionsOf(coins, IF Len(coins) = 0 THEN 1 ELSE Len(coins)))]

\* updateMarketConditions: the outcome (the promise resolves or rejects) and
\* the field afterwards; totalVolume / BigInt(0) throws a RangeError while
\* the object literal is evaluated, before the assignment
updateMarketConditions(stored, coins) ==
  IF Len(coins) = 0
  THEN [out |-> Throw(RangeError), marketConditions |-> stored]
  ELSE [out |-> Return(0),
        marketConditions |-> storeConditions(stored, conditionsOf(coins, Len(coins)))]

getMarketConditions(stored) == stored

\* ------------------------------------------------------------ the state
\* curve : the parameters of the calculator instance (fixed at construction)
\* marketConditions : the field of that name of the PricingEngine, None for null
\* now   : Date.now(), in hours
\* req   : the arguments of the request being served
\* pc    : "idle", or the position inside a call that runs as a loop
\* frame : the locals of the call in progress
\* last  : the completed call: its extra arguments and its outcome
VARIABLES curve, marketConditions, wallet, distributionConfig, now, req, pc, frame, last

vars == <<curve, marketConditions, wallet, distributionConfig, now, req, pc, frame, last>>

NoFrame == [op |-> "none"]

NoCall == [op |-> "none"]

\* supplies a request may name: every supply of the small profile, and the
\* low, middle and top supplies of the large one
Supplies(c) ==
  IF c.totalSupply <= TinyCap
  THEN 0 .. (c.totalSupply + 1)
  ELSE (0 .. 2) \cup ((c.totalSupply \div 2 + 9) .. (c.totalSupply \div 2 + 11))
       \cup ((c.totalSupply - 2) .. (c.totalSupply + 1))

Amounts(c) == IF c.totalSupply <= TinyCap THEN 0 .. (c.totalSupply + 1) ELSE 0 .. MaxTrade

\* values Math.random() is drawn from
Randoms == {Num(0, 1), Num(299, 300)}

CalculatorRequests(c) ==
  [kind : {"calculator"}, supply : Supplies(c), coinData : OptCoins,
   tradingVolume24h : OptVolumes, lastTradeTime : OptTimes]

\* maxPriceImpact arguments: 0, 5% and 300%, at the resolution of the unit
Impacts == {Num(0, WEI), Num(WEI \div 20, WEI), Num(3 * WEI, WEI)}

\* snapshots and scores handed to the private scoring functions
EngineCoins ==
  Coins \cup { Coin(50 * WEI, Num(50, 1), WEI, 40, 300),
               Coin(50 * WEI, Num(0 - 60, 1), 50 * WEI, 40, 300) }

PriceDifferences ==
  {NaN, Infinity(1), Infinity(0 - 1), Num(0 - 1, 2), Num(0 - 1, 10), Num(0, 1),
   Num(1, 10), Num(11, 100), Num(5, 1)}

LiquidityScores == {Num(0, 1), Num(29, 1), Num(30, 1), Num(50, 1), Num(51, 1), Num(100, 1)}

VolatilityScores == {NaN, Num(0, 1), Num(40, 1), Num(41, 1), Num(70, 1), Num(71, 1), Num(100, 1)}

\* arguments of generateRecommendation and of assessRisk
EngineRequests ==
  [kind : {"recommendation"}, priceDifference : PriceDifferences,
   liquidityScore : LiquidityScores]
  \cup [kind : {"risk"}, coin : EngineCoins, volatilityScore : VolatilityScores,
         liquidityScore : LiquidityScores]

\* values Math.random() is drawn from when price targets are generated
TargetRandoms == {Num(0, 1), Num(3, 4)}

\* a CreatorCoin snapshot with its own totalSupply
Snapshot(total, mc, change, vol, circ, price) ==
  [totalSupply |-> total, marketCap |-> mc, priceChange24h |-> change,
   tradingVolume24h |-> vol, circulatingSupply |-> circ, currentPrice |-> price]

\* market cap, 24h change and 24h volume of the snapshots that are priced
PricingSignals ==
  { <<0, Num(0, 1), 0>>, <<0, Num(0, 1), 50 * WEI>>,
    <<2000 * WEI, Num(0 - 12, 1), 2000 * WEI>>,
    <<300000 * WEI, Num(3, 1), 50000 * WEI>>,
    <<300000 * WEI, Num(60, 1), 50000 * WEI>> }

\* well-formed snapshots (0 <= circulatingSupply < totalSupply, nothing
\* negative): supplies in whole coins below the engine's cap, with external
\* prices 0, below and above the curve price; and supplies in base units
PricingSnapshots ==
  { Snapshot(Cap, sg[1], sg[2], sg[3], circ, price) :
      sg \in PricingSignals, circ \in {0, 100}, price \in {0, 400 * WEI, 1000 * WEI} }
  \cup { Snapshot(100 * Cap, sg[1], sg[2], sg[3], 10 * Cap, 400 * WEI) : sg \in PricingSignals }

PricingRequests == [kind : {"pricing"}, coin : PricingSnapshots]

\* arguments of calculateAdjustedMaxSlippage and of calculateDynamicFeeRate
\* snapshots handed to the calculator's liquidity score: the 24h change on
\* both sides of 0.05, 0.1, 0.2 and of 5, 10, 20
LiquidityChanges ==
  {Num(0, 1), Num(3, 100), Num(0 - 7, 100), Num(15, 100), Num(1, 2), Num(3, 1),
   Num(0 - 7, 1), Num(15, 1), Num(25, 1)}

LiquidityCoins ==
  { Coin(mc, change, 0, 10, 5) : mc \in {0, 50 * WEI, 5000 * WEI}, change \in LiquidityChanges }

LiquidityRequests ==
  [kind : {"liquidity"}, coinData : {None} \cup {Some(c) : c \in LiquidityCoins},
   tradingVolume24h : OptVolumes, lastTradeTime : OptTimes]

SignalRequests ==
  [kind : {"signals"}, coinData : OptSignalCoins, tradingVolume24h : OptSignalVolumes]

\* the callers that use the shared calculator and engine concurrently
Tasks == {1, 2}

\* coins handed to updateMarketConditions
MarketCoins ==
  { Coin(WEI \div 2, Num(3, 1), 2 * WEI + 1, 10, 5),
    Coin(50 * WEI, Num(0 - 12, 1), 50 * WEI, 40, 300),
    Coin(2000 * WEI, Num(60, 1), 500 * WEI, 70, 1000) }

\* coin lists of length 0, 1 and 2
CoinLists ==
  {<<>>} \cup {<<a>> : a \in MarketCoins} \cup {<<a, b>> : a \in MarketCoins, b \in MarketCoins}

\* the snapshot a task prices
TaskSnapshot == Snapshot(Cap, 300000 * WEI, Num(3, 1), 50000 * WEI, 100, 400 * WEI)

\* the call a task makes: a price, a quote (a buy of 1 at the same supply),
\* a pricing bundle, or an update of the market conditions with a coin list
TaskCalls ==
  [call : {"calculatePrice", "calculateTradePrice", "calculatePricingData"},
   supply : {Cap \div 2 + 10}, coin : {TaskSnapshot}, coins : {<<>>}]
  \cup [call : {"updateMarketConditions"}, supply : {Cap \div 2 + 10},
         coin : {TaskSnapshot}, coins : CoinLists]

TaskRequests == [kind : {"tasks"}, calls : [Tasks -> TaskCalls]]

\* the random draws a call makes
DrawsOf(call) ==
  IF call.call = "calculateTradePrice" THEN Randoms
  ELSE IF call.call = "calculatePricingData" THEN TargetRandoms
  ELSE {Num(0, 1)}

\* a call run to completion on the calculator c and on an engine whose
\* stored conditions are `stored`: its outcome and the conditions afterwards
runCall(c, call, stored, clock, random) ==
  IF call.call = "updateMarketConditions" THEN updateMarketConditions(stored, call.coins)
  ELSE [marketConditions |-> stored,
        out |-> IF call.call = "calculatePrice"
                THEN calculatePrice(c, call.supply, None, None, None, clock)
                ELSE IF call.call = "calculateTradePrice"
                THEN calculateTradePrice(c, call.supply, 1, TRUE, None, None, None,
                                         clock, random)
                ELSE calculatePricingData(c, call.coin, clock,
                                          <<random, random, random>>)]

\* ------------------------------------------------ WalletConnectManager
\* `private provider: EthereumProvider | null = null`; the instances that
\* EthereumProvider.init creates are numbered from 1
NoProvider == 0

\* number of calls each caller of the wallet manager makes, one after another
MaxCalls == 2

WalletScripts ==
  UNION { [1 .. n -> {"initialize", "connect", "disconnect"}] : n \in 1 .. MaxCalls }

WalletRequests == [kind : {"wallet"}, calls : [Tasks -> WalletScripts]]

\* the call caller t is making
currentCall(f, t) == req.calls[t][f.step[t]]

\* caller t's call has settled: it goes on to its next call, if any
settle(f, t) ==
  [f EXCEPT !.step[t] = @ + 1,
            !.pos[t] = IF f.step[t] + 1 > Len(req.calls[t]) THEN "done" ELSE "ready"]

\* initialize() has its provider p: initialize returns it to the caller,
\* connect goes on to `await provider.enable()`
initialized(f, t, p) ==
  IF currentCall(f, t) = "initialize"
  THEN settle([f EXCEPT !.received[t] = @ \cup {p}], t)
  ELSE [f EXCEPT !.pos[t] = "awaitEnable", !.provider[t] = p]

\* ------------------------------------------ RevenueDistributionManager
\* the configuration the constructor sets: 70 / 20 / 10, a minimum of 0.01
\* units, 24 hours between distributions, last distribution at the epoch
DefaultConfig ==
  [creatorPercentage |-> 70, platformPercentage |-> 20, holderPercentage |-> 10,
   minimumDistribution |-> WEI \div 100, distributionInterval |-> 24,
   lastDistribution |-> 0]

\* (totalAmount * BigInt(percentage)) / BigInt(100) and the share built from it
shareOf(type, recipient, totalAmount, percentage) ==
  [recipient |-> recipient, amount |-> (totalAmount * percentage) \div 100,
   percentage |-> percentage, type |-> type]

calculateRevenueDistribution(config, totalAmount) ==
  << shareOf("creator", "creatorId", totalAmount, config.creatorPercentage),
     shareOf("platform", "platformAddress", totalAmount, config.platformPercentage),
     shareOf("holder", "coinAddress", totalAmount, config.holderPercentage) >>

\* { ...this.distributionConfig, ...config }
updateDistributionConfig(config, partial) ==
  [k \in DOMAIN config |-> IF k \in DOMAIN partial THEN partial[k] ELSE config[k]]

\* hoursSinceLastDistribution >= distributionInterval
isDistributionDue(config, clock) ==
  clock - config.lastDistribution >= config.distributionInterval

\* holders.reduce((sum, holder) => sum + holder.balance, BigInt(0))
RECURSIVE holdersSupply(_, _)
holdersSupply(holders, count) ==
  IF count = 0 THEN 0 ELSE holdersSupply(holders, count - 1) + holders[count]

\* a transfer that transferToAddress was asked to make, and whether it went
\* through
Transfer(recipient, amount, settled) == [recipient |-> recipient, amount |-> amount, ok |-> settled]

\* distributeToHolders: the transfers it starts, one per holder with a share
\* above 0; holders are the balances getCoinHolders returned, settled[i] is
\* the fate of the transfer to holder i
distributeToHolders(amount, holders, settled) ==
  IF Len(holders) = 0 \/ holdersSupply(holders, Len(holders)) = 0 THEN <<>>
  ELSE LET holderShare(i) == (amount * holders[i]) \div holdersSupply(holders, Len(holders))
           paid == { i \in 1 .. Len(holders) : holderShare(i) > 0 }
           RECURSIVE started(_)
           started(i) ==
             IF i = 0 THEN <<>>
             ELSE IF i \in paid
                  THEN Append(started(i - 1), Transfer("holder", holderShare(i), settled[i]))
                  ELSE started(i - 1)
       IN  started(Len(holders))

\* the outcome of executeDistribution for each share: the creator and the
\* platform transfer reject when the transfer fails; the holder distribution
\* awaits Promise.allSettled over its transfers and resolves
executionResults(creatorSettled, platformSettled) ==
  << IF creatorSettled THEN "fulfilled" ELSE "rejected",
     IF platformSettled THEN "fulfilled" ELSE "rejected",
     "fulfilled" >>

\* results.filter(result => result.status === 'rejected').length > 0
statusOf(results) ==
  IF \E i \in DOMAIN results : results[i] = "rejected" THEN "failed" ELSE "completed"

\* the distribution record created before the transfers start
distributionRecord(shares, totalAmount, clock) ==
  [totalRevenue |-> totalAmount, creatorShare |-> shares[1].amount,
   platformShare |-> shares[2].amount, holderShare |-> shares[3].amount,
   distributionDate |-> clock, status |-> "processing"]

\* number of calls made on the revenue manager in one behaviour
MaxRevenueCalls == 2

\* the settings a caller saves: each percentage is an integer in 0..100
PartialConfigs ==
  { [creatorPercentage |-> 90],
    [creatorPercentage |-> 50, platformPercentage |-> 30, holderPercentage |-> 20],
    [creatorPercentage |-> 33, platformPercentage |-> 33, holderPercentage |-> 33],
    [minimumDistribution |-> WEI],
    [distributionInterval |-> 48] }

\* revenue amounts: 0, the default minimum, just below and at one unit, more
RevenueAmounts == {0, WEI \div 100, WEI - 1, WEI, 3 * WEI}

\* balances of the holders getCoinHolders returns
HolderLists == {<<>>, <<0, 0>>, <<5>>, <<1, 3>>}

RevenueRequests == [kind : {"revenue"}]

\* the error distributeRevenue rethrows from its catch block
DistributionError == "Failed to distribute revenue"

\* a task that has not called yet has no outcome
NoOutcome == Throw("pending")

Init ==
  /\ curve \in Profiles
  /\ marketConditions = None
  /\ wallet = [provider |-> NoProvider, instances |-> 0]
  /\ distributionConfig = DefaultConfig
  /\ now = 0
  /\ req \in (IF curve \in Curves THEN CalculatorRequests(curve) ELSE {})
             \cup (IF curve = LargeCurve
                   THEN EngineRequests \cup PricingRequests \cup TaskRequests
                        \cup WalletRequests \cup RevenueRequests ELSE {})
             \cup SignalRequests \cup LiquidityRequests
  /\ pc = "idle"
  /\ frame = NoFrame
  /\ last = NoCall

Pending == pc = "idle" /\ last.op = "none"

\* the clock advances by a day before the request is served
Tick ==
  /\ Pending
  /\ now < 24 * MaxDays
  /\ now' = now + 24
  /\ UNCHANGED <<curve, marketConditions, wallet, distributionConfig, req, pc, frame, last>>

CalculatePrice ==
  /\ Pending
  /\ req.kind = "calculator"
  /\ last' = [op |-> "calculatePrice",
              out |-> calculatePrice(curve, req.supply, req.coinData,
                                     req.tradingVolume24h, req.lastTradeTime, now)]
  /\ UNCHANGED <<curve, marketConditions, wallet, distributionConfig, now, req, pc, frame>>

\* getBondingCurve: the current price and the dynamic k behind it
GetBondingCurve ==
  /\ Pending
  /\ req.kind = "calculator"
  /\ LET currentPrice == calculatePrice(curve, req.supply, req.coinData,
                                        req.tradingVolume24h, req.lastTradeTime, now)
         dynamicK == calculateDynamicK(curve, req.coinData, req.tradingVolume24h,
                                       req.lastTradeTime, now)
     IN  last' = [op |-> "getBondingCurve",
                  out |-> IF currentPrice.ok
                          THEN Return([k |-> dynamicK, totalSupply |-> curve.totalSupply,
                                       currentSupply |-> req.supply,
                                       currentPrice |-> currentPrice.val,
                                       priceImpact |-> 0])
                          ELSE currentPrice]
  /\ UNCHANGED <<curve, marketConditions, wallet, distributionConfig, now, req, pc, frame>>

CalculateTradePrice ==
  /\ Pending
  /\ req.kind = "calculator"
  /\ \E tradeAmount \in Amounts(curve), isBuy \in BOOLEAN, random \in Randoms :
       last' = [op |-> "calculateTradePrice", tradeAmount |-> tradeAmount,
                isBuy |-> isBuy,
                out |-> calculateTradePrice(curve, req.supply, tradeAmount, isBuy,
                          req.coinData, req.tradingVolume24h, req.lastTradeTime,
                          now, random)]
  /\ UNCHANGED <<curve, marketConditions, wallet, distributionConfig, now, req, pc, frame>>

\* a buy quote, then the sell of the same amount at the supply the buy
\* leads to, with the same signals
RoundTrip ==
  /\ Pending
  /\ req.kind = "calculator"
  /\ \E tradeAmount \in Amounts(curve), random \in Randoms :
       \E buy \in {calculateTradePrice(curve, req.supply, tradeAmount, TRUE, req.coinData,
                      req.tradingVolume24h, req.lastTradeTime, now, random)} :
         last' = [op |-> "roundTrip", tradeAmount |-> tradeAmount, buy |-> buy,
                  sell |-> IF buy.ok
                           THEN calculateTradePrice(curve, req.supply + tradeAmount,
                                  tradeAmount, FALSE, req.coinData, req.tradingVolume24h,
                                  req.lastTradeTime, now, random)
                           ELSE buy]
  /\ UNCHANGED <<curve, marketConditions, wallet, distributionConfig, now, req, pc, frame>>

CalculateLiquidityScore ==
  /\ Pending
  /\ req.kind = "liquidity"
  /\ last' = [op |-> "calculateLiquidityScore",
              out |-> calculateLiquidityScore(req.coinData, req.tradingVolume24h,
                                              req.lastTradeTime, now)]
  /\ UNCHANGED <<curve, marketConditions, wallet, distributionConfig, now, req, pc, frame>>

CalculateAdjustedMaxSlippage ==
  /\ Pending
  /\ req.kind = "signals"
  /\ last' = [op |-> "calculateAdjustedMaxSlippage",
              out |-> calculateAdjustedMaxSlippage(curve, req.coinData, req.tradingVolume24h)]
  /\ UNCHANGED <<curve, marketConditions, wallet, distributionConfig, now, req, pc, frame>>

CalculateDynamicFeeRate ==
  /\ Pending
  /\ req.kind = "signals"
  /\ last' = [op |-> "calculateDynamicFeeRate",
              out |-> calculateDynamicFeeRate(curve, req.coinData, req.tradingVolume24h)]
  /\ UNCHANGED <<curve, marketConditions, wallet, distributionConfig, now, req, pc, frame>>

\* calculateOptimalTradeSize: the current price, then the binary search
OptimalStart ==
  /\ Pending
  /\ req.kind = "calculator"
  /\ \E maxPriceImpact \in Impacts :
       LET currentPrice == calculatePrice(curve, req.supply, req.coinData,
                                          req.tradingVolume24h, req.lastTradeTime, now)
       IN  IF currentPrice.ok
           THEN /\ pc' = "search"
                /\ frame' = [op |-> "calculateOptimalTradeSize",
                             maxPriceImpact |-> maxPriceImpact,
                             currentPrice |-> currentPrice.val,
                             maxPrice |-> maxPriceOf(currentPrice.val, maxPriceImpact),
                             low |-> 0, high |-> curve.totalSupply - req.supply,
                             optimalSize |-> 0]
                /\ last' = last
           ELSE /\ pc' = "idle"
                /\ frame' = NoFrame
                /\ last' = [op |-> "calculateOptimalTradeSize",
                            maxPriceImpact |-> maxPriceImpact, out |-> currentPrice]
  /\ UNCHANGED <<curve, marketConditions, wallet, distributionConfig, now, req>>

\* while (low <= high) { mid; newPrice = calculatePrice(supply + mid); ... }
OptimalStep ==
  /\ pc = "search"
  /\ frame.low <= frame.high
  /\ LET mid == (frame.low + frame.high) \div 2
         newPrice == calculatePrice(curve, req.supply + mid, req.coinData,
                                    req.tradingVolume24h, req.lastTradeTime, now)
     IN  IF newPrice.ok
         THEN /\ frame' = bisect(frame, mid, newPrice.val)
              /\ UNCHANGED <<pc, last>>
         ELSE /\ pc' = "idle"
              /\ frame' = NoFrame
              /\ last' = [op |-> "calculateOptimalTradeSize",
                          maxPriceImpact |-> frame.maxPriceImpact, out |-> newPrice]
  /\ UNCHANGED <<curve, marketConditions, wallet, distributionConfig, now, req>>

OptimalReturn ==
  /\ pc = "search"
  /\ frame.low > frame.high
  /\ pc' = "idle"
  /\ frame' = NoFrame
  /\ last' = [op |-> "calculateOptimalTradeSize",
              maxPriceImpact |-> frame.maxPriceImpact, out |-> Return(frame.optimalSize)]
  /\ UNCHANGED <<curve, marketConditions, wallet, distributionConfig, now, req>>

GenerateRecommendation ==
  /\ Pending
  /\ req.kind = "recommendation"
  /\ last' = [op |-> "generateRecommendation",
              out |-> Return(generateRecommendation(req.priceDifference, req.liquidityScore))]
  /\ UNCHANGED <<curve, marketConditions, wallet, distributionConfig, now, req, pc, frame>>

\* PricingEngine.calculatePricingData; the engine prices with its own
\* calculator, which has the default profile
CalculatePricingData ==
  /\ Pending
  /\ req.kind = "pricing"
  /\ \E draws \in [1 .. 3 -> TargetRandoms] :
       last' = [op |-> "calculatePricingData",
                out |-> calculatePricingData(curve, req.coin, now, draws)]
  /\ UNCHANGED <<curve, marketConditions, wallet, distributionConfig, now, req, pc, frame>>

\* assessRisk, one action per statement group
AssessRiskStart ==
  /\ Pending
  /\ req.kind = "risk"
  /\ pc' = "riskVolatility"
  /\ frame' = [op |-> "assessRisk", riskFactors |-> <<>>, riskLevel |-> "low"]
  /\ UNCHANGED <<curve, marketConditions, wallet, distributionConfig, now, req, last>>

RiskVolatility ==
  /\ pc = "riskVolatility"
  /\ frame' = checkVolatility(frame, req.volatilityScore)
  /\ pc' = "riskLiquidity"
  /\ UNCHANGED <<curve, marketConditions, wallet, distributionConfig, now, req, last>>

RiskLiquidity ==
  /\ pc = "riskLiquidity"
  /\ frame' = checkLiquidity(frame, req.liquidityScore)
  /\ pc' = "riskExtremeMove"
  /\ UNCHANGED <<curve, marketConditions, wallet, distributionConfig, now, req, last>>

RiskExtremeMove ==
  /\ pc = "riskExtremeMove"
  /\ frame' = checkExtremeMove(frame, req.coin)
  /\ pc' = "riskLowVolume"
  /\ UNCHANGED <<curve, marketConditions, wallet, distributionConfig, now, req, last>>

RiskLowVolume ==
  /\ pc = "riskLowVolume"
  /\ frame' = checkLowVolume(frame, req.coin)
  /\ pc' = "riskReturn"
  /\ UNCHANGED <<curve, marketConditions, wallet, distributionConfig, now, req, last>>

AssessRiskReturn ==
  /\ pc = "riskReturn"
  /\ pc' = "idle"
  /\ frame' = NoFrame
  /\ last' = [op |-> "assessRisk", out |-> Return(riskResult(frame))]
  /\ UNCHANGED <<curve, marketConditions, wallet, distributionConfig, now, req>>

\* two callers start using the shared wallet manager
SpawnWallet ==
  /\ Pending
  /\ req.kind = "wallet"
  /\ pc' = "wallet"
  /\ frame' = [op |-> "wallet", step |-> [t \in Tasks |-> 1],
               pos |-> [t \in Tasks |-> "ready"],
               provider |-> [t \in Tasks |-> NoProvider],
               received |-> [t \in Tasks |-> {}],
               disconnects |-> 0]
  /\ UNCHANGED <<curve, marketConditions, wallet, distributionConfig, now, req, last>>

\* initialize(), called directly or from connect(), up to its await or its
\* early return
Initialize(t) ==
  /\ pc = "wallet"
  /\ frame.pos[t] = "ready"
  /\ currentCall(frame, t) \in {"initialize", "connect"}
  /\ frame' = IF wallet.provider # NoProvider
              THEN initialized(frame, t, wallet.provider)
              ELSE [frame EXCEPT !.pos[t] = "awaitInit"]
  /\ UNCHANGED <<curve, marketConditions, wallet, distributionConfig, now, req, pc, last>>

\* EthereumProvider.init resolves with a new instance:
\* `this.provider = await ...; return this.provider`
InitResolve(t) ==
  /\ pc = "wallet"
  /\ frame.pos[t] = "awaitInit"
  /\ wallet' = [provider |-> wallet.instances + 1, instances |-> wallet.instances + 1]
  /\ frame' = initialized(frame, t, wallet.instances + 1)
  /\ UNCHANGED <<curve, marketConditions, distributionConfig, now, req, pc, last>>

\* provider.enable() and the chain id request settle: connect returns the
\* connection with its provider, or throws 'Failed to connect wallet'
ConnectResolve(t) ==
  /\ pc = "wallet"
  /\ frame.pos[t] = "awaitEnable"
  /\ \E enabled \in BOOLEAN :
       frame' = IF enabled
                THEN settle([frame EXCEPT !.received[t] = @ \cup {frame.provider[t]}], t)
                ELSE settle(frame, t)
  /\ UNCHANGED <<curve, marketConditions, wallet, distributionConfig, now, req, pc, last>>

\* disconnect() up to `await this.provider.disconnect()`
Disconnect(t) ==
  /\ pc = "wallet"
  /\ frame.pos[t] = "ready"
  /\ currentCall(frame, t) = "disconnect"
  /\ frame' = IF wallet.provider # NoProvider
              THEN [frame EXCEPT !.pos[t] = "awaitDisconnect"]
              ELSE settle(frame, t)
  /\ UNCHANGED <<curve, marketConditions, wallet, distributionConfig, now, req, pc, last>>

\* the provider's disconnect resolves: `this.provider = null`
DisconnectResolve(t) ==
  /\ pc = "wallet"
  /\ frame.pos[t] = "awaitDisconnect"
  /\ wallet' = [wallet EXCEPT !.provider = NoProvider]
  /\ frame' = settle([frame EXCEPT !.disconnects = @ + 1], t)
  /\ UNCHANGED <<curve, marketConditions, distributionConfig, now, req, pc, last>>

\* a component starts using its revenue manager
StartRevenue ==
  /\ Pending
  /\ req.kind = "revenue"
  /\ pc' = "revenue"
  /\ frame' = [op |-> "revenue", calls |-> 0, pos |-> "ready"]
  /\ UNCHANGED <<curve, marketConditions, wallet, distributionConfig, now, req, last>>

\* the manager is idle and the caller may make another call
RevenueReady == pc = "revenue" /\ frame.pos = "ready" /\ frame.calls < MaxRevenueCalls

UpdateDistributionConfig ==
  /\ RevenueReady
  /\ \E config \in PartialConfigs :
       /\ distributionConfig' = updateDistributionConfig(distributionConfig, config)
       /\ last' = [op |-> "updateDistributionConfig", config |-> config]
  /\ frame' = [frame EXCEPT !.calls = @ + 1]
  /\ UNCHANGED <<curve, marketConditions, wallet, now, req, pc>>

CalculateRevenueDistribution ==
  /\ RevenueReady
  /\ \E totalAmount \in RevenueAmounts :
       last' = [op |-> "calculateRevenueDistribution", totalAmount |-> totalAmount,
                out |-> Return(calculateRevenueDistribution(distributionConfig, totalAmount))]
  /\ frame' = [frame EXCEPT !.calls = @ + 1]
  /\ UNCHANGED <<curve, marketConditions, wallet, distributionConfig, now, req, pc>>

IsDistributionDue ==
  /\ RevenueReady
  /\ last' = [op |-> "isDistributionDue",
              out |-> Return(isDistributionDue(distributionConfig, now))]
  /\ frame' = [frame EXCEPT !.calls = @ + 1]
  /\ UNCHANGED <<curve, marketConditions, wallet, distributionConfig, now, req, pc>>

\* distributeRevenue up to `await Promise.allSettled(distributionPromises)`:
\* the threshold check, the shares, the record, the transfers started
DistributeRevenue ==
  /\ RevenueReady
  /\ \E totalAmount \in RevenueAmounts :
       IF totalAmount < distributionConfig.minimumDistribution
       THEN /\ last' = [op |-> "distributeRevenue", totalAmount |-> totalAmount,
                        out |-> Throw(DistributionError), transfers |-> <<>>]
            /\ frame' = [frame EXCEPT !.calls = @ + 1]
       ELSE /\ frame' = [op |-> "revenue", calls |-> frame.calls + 1, pos |-> "settling",
                         totalAmount |-> totalAmount,
                         shares |-> calculateRevenueDistribution(distributionConfig,
                                                                 totalAmount)]
            /\ last' = last
  /\ UNCHANGED <<curve, marketConditions, wallet, distributionConfig, now, req, pc>>

\* the transfers settle: the status, lastDistribution, the saved record
SettleDistribution ==
  /\ pc = "revenue"
  /\ frame.pos = "settling"
  /\ \E creatorSettled \in BOOLEAN, platformSettled \in BOOLEAN, holders \in HolderLists :
       \E settled \in [1 .. Len(holders) -> BOOLEAN] :
         \E status \in {statusOf(executionResults(creatorSettled, platformSettled))} :
           /\ distributionConfig' =
                IF status = "completed"
                THEN [distributionConfig EXCEPT !.lastDistribution = now]
                ELSE distributionConfig
           /\ last' = [op |-> "distributeRevenue", totalAmount |-> frame.totalAmount,
                       out |-> Return([distributionRecord(frame.shares, frame.totalAmount, now)
                                         EXCEPT !.status = status]),
                       transfers |->
                         << Transfer("creatorId", frame.shares[1].amount, creatorSettled),
                            Transfer("platformAddress", frame.shares[2].amount,
                                     platformSettled) >>
                         \o distributeToHolders(frame.shares[3].amount, holders, settled)]
  /\ frame' = [op |-> "revenue", calls |-> frame.calls, pos |-> "ready"]
  /\ UNCHANGED <<curve, marketConditions, wallet, now, req, pc>>

\* two callers start using the shared calculator and engine
SpawnTasks ==
  /\ Pending
  /\ req.kind = "tasks"
  /\ pc' = "tasks"
  /\ frame' = [op |-> "tasks", pos |-> [t \in Tasks |-> "ready"],
               out |-> [t \in Tasks |-> NoOutcome],
               draw |-> [t \in Tasks |-> Num(0, 1)],
               seen |-> [t \in Tasks |-> None]]
  /\ UNCHANGED <<curve, marketConditions, wallet, distributionConfig, now, req, last>>

\* task t makes its call. None of the four functions contains an await, so
\* the body runs to completion before any other task runs; the caller then
\* awaits the result
TaskCall(t) ==
  /\ pc = "tasks"
  /\ frame.pos[t] = "ready"
  /\ \E random \in DrawsOf(req.calls[t]) :
       \E done \in {runCall(curve, req.calls[t], marketConditions, now, random)} :
           /\ marketConditions' = done.marketConditions
           /\ frame' = [frame EXCEPT !.pos[t] = "awaiting", !.out[t] = done.out,
                                      !.draw[t] = random]
  /\ UNCHANGED <<curve, wallet, distributionConfig, now, req, pc, last>>

\* task t resumes after its await and reads getMarketConditions()
TaskResume(t) ==
  /\ pc = "tasks"
  /\ frame.pos[t] = "awaiting"
  /\ frame' = [frame EXCEPT !.pos[t] = "done",
                             !.seen[t] = getMarketConditions(marketConditions)]
  /\ UNCHANGED <<curve, marketConditions, wallet, distributionConfig, now, req, pc, last>>

Next ==
  \/ Tick
  \/ CalculatePrice
  \/ GetBondingCurve
  \/ CalculateTradePrice
  \/ RoundTrip
  \/ CalculateAdjustedMaxSlippage
  \/ CalculateDynamicFeeRate
  \/ CalculateLiquidityScore
  \/ CalculatePricingData
  \/ OptimalStart
  \/ OptimalStep
  \/ OptimalReturn
  \/ GenerateRecommendation
  \/ AssessRiskStart
  \/ RiskVolatility
  \/ RiskLiquidity
  \/ RiskExtremeMove
  \/ RiskLowVolume
  \/ AssessRiskReturn
  \/ SpawnTasks
  \/ \E t \in Tasks : TaskCall(t)
  \/ \E t \in Tasks : TaskResume(t)
  \/ SpawnWallet
  \/ \E t \in Tasks : Initialize(t)
  \/ \E t \in Tasks : InitResolve(t)
  \/ \E t \in Tasks : ConnectResolve(t)
  \/ \E t \in Tasks : Disconnect(t)
  \/ \E t \in Tasks : DisconnectResolve(t)
  \/ StartRevenue
  \/ UpdateDistributionConfig
  \/ CalculateRevenueDistribution
  \/ IsDistributionDue
  \/ DistributeRevenue
  \/ SettleDistribution

Spec == Init /\ [][Next]_vars

\* ================================================================ claims
\* the price calculatePrice returns for the request's signals at a supply
priceAt(supply) ==
  calculatePrice(curve, supply, req.coinData, req.tradingVolume24h, req.lastTradeTime, now)

Orig_C2 ==
  (last.op = "calculatePrice" /\ last.out.ok) =>
    \A s1 \in 0 .. (req.supply - 1) : priceAt(s1).val < last.out.val

\* C2 amended: calculatePrice is non-decreasing in supply; two supplies
\* may floor to the same integer price.
Thm_C2 ==
  (last.op = "calculatePrice" /\ last.out.ok) =>
    \A s1 \in 0 .. (req.supply - 1) : priceAt(s1).ok /\ priceAt(s1).val <= last.out.val

Wit_C2 ==
  /\ last.op = "calculatePrice"
  /\ last.out.ok
  /\ req.supply >= 2
  /\ priceAt(req.supply - 1).val < last.out.val
  /\ priceAt(1).val = priceAt(0).val

\* C3: the dynamic k is never less than baseK * 0.1, for every volume,
\* inactivity and market cap.
Thm_C3 ==
  (last.op = "getBondingCurve" /\ last.out.ok) =>
    /\ IsNum(last.out.val.k)
    /\ 10 * last.out.val.k.n * curve.baseK.d >= curve.baseK.n * last.out.val.k.d

Wit_C3 ==
  /\ last.op = "getBondingCurve"
  /\ last.out.ok
  /\ IsSome(req.lastTradeTime)
  /\ now - Val(req.lastTradeTime) >= 48
  /\ last.out.val.k = Mul(curve.baseK, Num(1, 10))

\* the supply a trade leaves behind
newSupplyOf == IF last.isBuy THEN req.supply + last.tradeAmount
               ELSE req.supply - last.tradeAmount

\* C4: a trade whose resulting supply is outside [0, totalSupply) fails
\* with the invalid-trade error and no other, before any price is computed.
Cex_C4 ==
  (last.op = "calculateTradePrice"
     /\ (newSupplyOf < 0 \/ newSupplyOf >= curve.totalSupply)) =>
    /\ ~last.out.ok
    /\ last.out.err = InvalidTradeError
    /\ last.out.priceCalls = 0

\* C5: a quote is returned only with a defined priceImpact that is at most
\* the adjusted max slippage, hence at most 0.10.
Cex_C5 ==
  (last.op = "calculateTradePrice" /\ last.out.ok) =>
    /\ IsNum(last.out.val.priceImpact)
    /\ ~Gt(last.out.val.priceImpact,
           calculateAdjustedMaxSlippage(curve, req.coinData, req.tradingVolume24h))
    /\ ~Gt(last.out.val.priceImpact, Num(1, 10))

\* C6: with the default slippage and multipliers and no signals, a buy at
\* supply 0 yields a quote whose priceImpact is strictly positive.
Cex_C6 ==
  (/\ last.op = "calculateTradePrice"
   /\ curve = LargeCurve
   /\ req.supply = 0
   /\ last.isBuy
   /\ last.tradeAmount = MaxTrade
   /\ ~IsSome(req.coinData) /\ ~IsSome(req.tradingVolume24h) /\ ~IsSome(req.lastTradeTime)) =>
    /\ last.out.ok
    /\ Gt(last.out.val.priceImpact, Num(0, 1))

\* price(supply + r) <= currentPrice * (1 + maxPriceImpact), in exact arithmetic
withinImpact(r) ==
  /\ priceAt(req.supply + r).ok
  /\ priceAt(req.supply + r).val * last.maxPriceImpact.d
       <= priceAt(req.supply).val * (last.maxPriceImpact.d + last.maxPriceImpact.n)

\* C7: the size calculateOptimalTradeSize returns lies in
\* [0, totalSupply - supply], keeps the price within the bound, and every
\* larger size that is a valid supply breaks the bound.
Thm_C7 ==
  (last.op = "calculateOptimalTradeSize" /\ last.out.ok) =>
    /\ last.out.val >= 0
    /\ last.out.val <= curve.totalSupply - req.supply
    /\ withinImpact(last.out.val)
    /\ \A r \in (last.out.val + 1) .. (curve.totalSupply - req.supply - 1) :
         ~withinImpact(r)

Wit_C7 ==
  /\ last.op = "calculateOptimalTradeSize"
  /\ last.out.ok
  /\ last.out.val > 1
  /\ last.out.val + 1 < curve.totalSupply - req.supply
  /\ priceAt(req.supply).val > 0

\* C8: for every supply in [0, totalSupply) and maxImpact >= 0 the binary
\* search ends by returning a size, never by raising an error.
Cex_C8 ==
  (last.op = "calculateOptimalTradeSize"
     /\ req.supply >= 0 /\ req.supply < curve.totalSupply) =>
    last.out.ok

\* priceDifference > 0.1 and priceDifference < -0.1 on JavaScript numbers
above10Percent(x) == (x.t = "inf" /\ x.n > 0) \/ (x.t = "num" /\ 10 * x.n > x.d)

below10Percent(x) == (x.t = "inf" /\ x.n < 0) \/ (x.t = "num" /\ 10 * x.n < 0 - x.d)

above50(x) == x.t = "num" /\ x.n > 50 * x.d

\* C9: generateRecommendation is 'buy' iff priceDifference > 0.1 and
\* liquidityScore > 50, 'sell' iff priceDifference < -0.1 and
\* liquidityScore > 50, 'hold' otherwise; with liquidityScore <= 50 it is
\* always 'hold'.
Thm_C9 ==
  last.op = "generateRecommendation" =>
    /\ last.out.val = "buy" <=>
          (above10Percent(req.priceDifference) /\ above50(req.liquidityScore))
    /\ last.out.val = "sell" <=>
          (below10Percent(req.priceDifference) /\ above50(req.liquidityScore))
    /\ last.out.val \in {"buy", "sell", "hold"}
    /\ ~above50(req.liquidityScore) => last.out.val = "hold"

Wit_C9 ==
  /\ last.op = "generateRecommendation"
  /\ req.liquidityScore = Num(50, 1)
  /\ req.priceDifference = Num(5, 1)
  /\ last.out.val = "hold"

Rank(level) == IF level = "low" THEN 0 ELSE IF level = "medium" THEN 1 ELSE 2

\* C10: inside one assessRisk call the risk level never decreases from one
\* check to the next, the returned level is the last one, and it is
\* 'high' whenever volatilityScore > 70 or |priceChange24h| > 50 (then with
\* an 'Extreme price movement' factor).
Thm_C10 ==
  /\ [][(frame.op = "assessRisk" /\ frame'.op = "assessRisk") =>
          Rank(frame'.riskLevel) >= Rank(frame.riskLevel)]_vars
  /\ [][(frame.op = "assessRisk" /\ last'.op = "assessRisk") =>
          last'.out.val.level = frame.riskLevel]_vars
  /\ [](last.op = "assessRisk" =>
          /\ (req.volatilityScore.t = "num"
                /\ req.volatilityScore.n > 70 * req.volatilityScore.d) =>
                last.out.val.level = "high"
          /\ Abs(req.coin.priceChange24h.n) > 50 * req.coin.priceChange24h.d =>
                /\ last.out.val.level = "high"
                /\ \E i \in DOMAIN last.out.val.factors :
                     last.out.val.factors[i] = "Extreme price movement")

Wit_C10 ==
  /\ last.op = "assessRisk"
  /\ req.coin.priceChange24h = Num(60, 1)
  /\ req.volatilityScore = Num(71, 1)
  /\ req.liquidityScore = Num(29, 1)
  /\ last.out.val.level = "high"
  /\ Len(last.out.val.factors) >= 3

\* a snapshot as the data model defines it
wellFormed(coin) ==
  /\ coin.circulatingSupply >= 0
  /\ coin.circulatingSupply < coin.totalSupply
  /\ coin.tradingVolume24h >= 0
  /\ coin.marketCap >= 0
  /\ coin.currentPrice >= 0

\* C11: calculatePricingData returns a bundle, and never raises, for every
\* well-formed snapshot, supplies in base units and an external price of 0
\* included.
Cex_C11 ==
  (last.op = "calculatePricingData" /\ wellFormed(req.coin)) => last.out.ok

\* a defined number between lo and hi
definedWithin(x, lo, hi) == x.t = "num" /\ lo * x.d <= x.n /\ x.n <= hi * x.d

\* C12: every bundle calculatePricingData returns has liquidityScore,
\* volatilityScore and confidence in [0,100] and trendScore in [-100,100],
\* each a defined number.
Cex_C12 ==
  (last.op = "calculatePricingData" /\ last.out.ok) =>
    /\ definedWithin(last.out.val.liquidityScore, 0, 100)
    /\ definedWithin(last.out.val.volatilityScore, 0, 100)
    /\ definedWithin(last.out.val.trendScore, 0 - 100, 100)
    /\ definedWithin(last.out.val.confidence, 0, 100)

\* task t makes its call in this step
calls(t) ==
  /\ frame.op = "tasks"
  /\ frame'.op = "tasks"
  /\ frame.pos[t] = "ready"
  /\ frame'.pos[t] = "awaiting"

\* task t's call is updateMarketConditions with a list of n coins
updatesWith(t, n) ==
  /\ req.kind = "tasks"
  /\ req.calls[t].call = "updateMarketConditions"
  /\ Len(req.calls[t].coins) = n

\* C13: updateMarketConditions([]) fails with an error the caller observes
\* (the promise rejects) and leaves the stored market conditions as they
\* were before the call.
Thm_C13 ==
  [][\A t \in Tasks :
       (updatesWith(t, 0) /\ calls(t)) =>
         /\ ~frame'.out[t].ok
         /\ frame'.out[t].err # ""
         /\ marketConditions' = marketConditions
         /\ getMarketConditions(marketConditions') = getMarketConditions(marketConditions)]_vars

Wit_C13 ==
  /\ frame.op = "tasks"
  /\ \E t \in Tasks :
       /\ updatesWith(t, 0)
       /\ frame.pos[t] = "done"
       /\ ~frame.out[t].ok
       /\ IsSome(frame.seen[t])
       /\ frame.seen[t] = marketConditions

\* the sum of a field over a list, taken from the last coin to the first
RECURSIVE sumOfCaps(_)
sumOfCaps(coins) ==
  IF Len(coins) = 0 THEN 0 ELSE Head(coins).marketCap + sumOfCaps(Tail(coins))

RECURSIVE sumOfVolumes(_)
sumOfVolumes(coins) ==
  IF Len(coins) = 0 THEN 0 ELSE Head(coins).tradingVolume24h + sumOfVolumes(Tail(coins))

\* C14: for a non-empty list updateMarketConditions stores marketCap = the
\* sum of the market caps, totalVolume = the sum of the 24h volumes and
\* averageTradeSize = floor(totalVolume / coinCount); for a single coin c
\* that is c.marketCap and c.tradingVolume24h.
Thm_C14 ==
  [][\A t \in Tasks :
       (req.kind = "tasks" /\ req.calls[t].call = "updateMarketConditions"
          /\ Len(req.calls[t].coins) > 0 /\ calls(t)) =>
         LET coins == req.calls[t].coins
             stored == Val(marketConditions')
         IN  /\ frame'.out[t].ok
             /\ IsSome(marketConditions')
             /\ stored.marketCap = sumOfCaps(coins)
             /\ stored.totalVolume = sumOfVolumes(coins)
             /\ stored.averageTradeSize * Len(coins) <= stored.totalVolume
             /\ stored.totalVolume < (stored.averageTradeSize + 1) * Len(coins)
             /\ Len(coins) = 1 =>
                  /\ stored.marketCap = coins[1].marketCap
                  /\ stored.averageTradeSize = coins[1].tradingVolume24h]_vars

Wit_C14 ==
  /\ frame.op = "tasks"
  /\ IsSome(marketConditions)
  /\ \E t \in Tasks :
       /\ updatesWith(t, 2)
       /\ frame.pos[t] = "awaiting"
       /\ Val(marketConditions).totalVolume = sumOfVolumes(req.calls[t].coins)
       /\ Val(marketConditions).averageTradeSize * 2 < Val(marketConditions).totalVolume

\* the stored conditions are null or the aggregate of one task's list
oneAggregate(stored) ==
  \/ stored = None
  \/ \E t \in Tasks :
       /\ req.kind = "tasks"
       /\ req.calls[t].call = "updateMarketConditions"
       /\ Len(req.calls[t].coins) > 0
       /\ stored = Some(conditionsOf(req.calls[t].coins, Len(req.calls[t].coins)))

\* C15: under every interleaving of concurrent calculatePrice,
\* calculateTradePrice, calculatePricingData and updateMarketConditions
\* calls, each result equals the result of the same call run alone with the
\* same inputs, clock and random draw, no call changes the curve
\* parameters, and getMarketConditions returns null or the complete
\* aggregate of exactly one input list.
Thm_C15 ==
  /\ [][curve' = curve]_vars
  /\ [](oneAggregate(getMarketConditions(marketConditions)))
  /\ [](frame.op = "tasks" =>
          \A t \in Tasks :
            /\ oneAggregate(frame.seen[t])
            /\ frame.pos[t] # "ready" =>
                 frame.out[t] = runCall(curve, req.calls[t], None, now, frame.draw[t]).out)

Wit_C15 ==
  /\ frame.op = "tasks"
  /\ \A t \in Tasks : frame.pos[t] = "done"
  /\ updatesWith(1, 1)
  /\ updatesWith(2, 2)
  /\ frame.out[1].ok
  /\ frame.seen[1] = Some(conditionsOf(req.calls[2].coins, 2))
  /\ frame.seen[1] # Some(conditionsOf(req.calls[1].coins, 1))

\* the call of the last step repeated with another random draw
tradeOf(random) ==
  calculateTradePrice(curve, req.supply, last.tradeAmount, last.isBuy, req.coinData,
                      req.tradingVolume24h, req.lastTradeTime, now, random)

\* two outcomes that fail alike or agree on every field but the deadline
sameButDeadline(a, b) ==
  /\ a.ok = b.ok
  /\ a.err = b.err
  /\ a.ok =>
       /\ a.val.inputAmount = b.val.inputAmount
       /\ a.val.outputAmount = b.val.outputAmount
       /\ a.val.priceImpact = b.val.priceImpact
       /\ a.val.fee = b.val.fee
       /\ a.val.minimumReceived = b.val.minimumReceived

\* C16: two calculateTradePrice calls with the same arguments, parameters
\* and clock reading but different random draws both fail with the same
\* error or return quotes that differ in the deadline only.
Thm_C16 ==
  last.op = "calculateTradePrice" =>
    \A random \in Randoms : sameButDeadline(last.out, tradeOf(random))

Wit_C16 ==
  /\ last.op = "calculateTradePrice"
  /\ last.out.ok
  /\ last.out.val.outputAmount > 0
  /\ \E random \in Randoms : tradeOf(random).val.deadline # last.out.val.deadline

\* the fee rate of the request's signals in basis points, by the rule of
\* the fee schedule: 100, half of it above 1000 units of volume, else three
\* quarters above 100 units, twice that below 1 unit of market cap, at least 50
feeRateBasisPoints ==
  LET volume == IF IsSome(req.tradingVolume24h) THEN Val(req.tradingVolume24h) ELSE 0
      tier == IF volume > 1000 * WEI THEN 50
              ELSE IF volume > 100 * WEI THEN 75 ELSE 100
      rate == IF IsSome(req.coinData) /\ Val(req.coinData).marketCap < WEI
              THEN 2 * tier ELSE tier
  IN  IF rate < 50 THEN 50 ELSE rate

\* C17: every quote has fee = floor(outputAmount * feeRateBasisPoints /
\* 10000) and minimumReceived = outputAmount - fee, so that fee +
\* minimumReceived = outputAmount and 0 <= fee <= outputAmount, with
\* feeRateBasisPoints between 50 and 200.
Thm_C17 ==
  (last.op = "calculateTradePrice" /\ last.out.ok) =>
    LET q == last.out.val
    IN  /\ feeRateBasisPoints \in 50 .. 200
        /\ q.fee = (q.outputAmount * feeRateBasisPoints) \div 10000
        /\ q.minimumReceived = q.outputAmount - q.fee
        /\ q.fee + q.minimumReceived = q.outputAmount
        /\ 0 <= q.fee /\ q.fee <= q.outputAmount
        /\ q.minimumReceived >= 0

Wit_C17 ==
  /\ last.op = "calculateTradePrice"
  /\ last.out.ok
  /\ last.out.val.fee > 0
  /\ last.out.val.minimumReceived > 0

\* the request names a 24h volume above 100 units
liquidVolume ==
  IsSome(req.tradingVolume24h) /\ Val(req.tradingVolume24h) > 100 * WEI

\* the request names a coin with a market cap below 10 units
newCoin == IsSome(req.coinData) /\ Val(req.coinData).marketCap < 10 * WEI

\* C18: the adjusted max slippage is maxSlippage, times 0.8 when the 24h
\* volume is above 100 units, times 1.5 when the market cap is below 10
\* units, clamped to at most 0.10; it never exceeds 0.10, whatever the
\* configured maxSlippage.
Thm_C18 ==
  last.op = "calculateAdjustedMaxSlippage" =>
    LET tightened == IF liquidVolume THEN Mul(curve.maxSlippage, Num(4, 5))
                     ELSE curve.maxSlippage
        loosened == IF newCoin THEN Mul(tightened, Num(3, 2)) ELSE tightened
    IN  /\ last.out = IF 10 * loosened.n > loosened.d THEN Num(1, 10) ELSE loosened
        /\ 10 * last.out.n <= last.out.d

Wit_C18 ==
  /\ last.op = "calculateAdjustedMaxSlippage"
  /\ 10 * curve.maxSlippage.n > curve.maxSlippage.d
  /\ liquidVolume
  /\ newCoin
  /\ last.out = Num(1, 10)

\* C19: the fee rate is 1%, halved above 1000 units of volume, otherwise
\* times 0.75 above 100 units, then doubled below 1 unit of market cap,
\* floored at 0.5%; it is always within [0.5%, 2%].
Thm_C19 ==
  last.op = "calculateDynamicFeeRate" =>
    /\ last.out = Num(feeRateBasisPoints, 10000)
    /\ last.out.t = "num"
    /\ 5 * last.out.d <= 1000 * last.out.n
    /\ 100 * last.out.n <= 2 * last.out.d

Wit_C19 ==
  /\ last.op = "calculateDynamicFeeRate"
  /\ IsSome(req.tradingVolume24h) /\ Val(req.tradingVolume24h) > 1000 * WEI
  /\ IsSome(req.coinData) /\ Val(req.coinData).marketCap < WEI
  /\ last.out = Num(1, 100)

\* C20: every quote has deadline = now + 1800 + jitter seconds with jitter
\* an integer in [0, 300], so now + 1800 <= deadline <= now + 2100.
Thm_C20 ==
  (last.op = "calculateTradePrice" /\ last.out.ok) =>
    LET jitter == last.out.val.deadline - SecondsOf(now) - 1800
    IN  /\ jitter \in 0 .. 300
        /\ SecondsOf(now) + 1800 <= last.out.val.deadline
        /\ last.out.val.deadline <= SecondsOf(now) + 2100
        /\ last.out.val.deadline >= SecondsOf(now)

Wit_C20 ==
  /\ last.op = "calculateTradePrice"
  /\ last.out.ok
  /\ now > 0
  /\ last.out.val.deadline = SecondsOf(now) + 1800 + 299

\* the factor the volume rule gives a supplied 24h volume
volumeFactor(volume) ==
  IF volume > 100 * WEI THEN Num(12, 10)
  ELSE IF volume < WEI THEN Num(8, 10)
  ELSE Num(1, 1)

\* the k getBondingCurve reports when no volume is supplied, and the floor
\* of a tenth of baseK
kWithoutVolume == calculateDynamicK(curve, req.coinData, None, req.lastTradeTime, now)

minimumK == Mul(curve.baseK, Num(1, 10))

\* C21: whenever a 24h volume is supplied, k is multiplied by 1.2 if the
\* volume is above 100 whole units, by 0.8 if it is below 1 whole unit (a
\* supplied volume of exactly 0 included), and by 1.0 otherwise.
Cex_C21 ==
  (/\ last.op = "getBondingCurve" /\ last.out.ok
   /\ IsSome(req.tradingVolume24h)
   /\ Gt(kWithoutVolume, minimumK)) =>
    last.out.val.k = MathMax(Mul(kWithoutVolume, volumeFactor(Val(req.tradingVolume24h))),
                             minimumK)

\* a defined number above 0
positive(x) == x.t = "num" /\ x.n > 0

\* C22: when a buy of size a at supply s returns a quote, the sell of the
\* same size at supply s + a with the same signals returns a quote too,
\* both price impacts are positive, and the sell-back impact is at most the
\* buy impact.
Cex_C22 ==
  (last.op = "roundTrip" /\ last.buy.ok) =>
    /\ last.sell.ok
    /\ positive(last.buy.val.priceImpact)
    /\ positive(last.sell.val.priceImpact)
    /\ ~Gt(last.sell.val.priceImpact, last.buy.val.priceImpact)

\* x > n and x < n for a JavaScript number x and an integer n, and |x| > n
exceeds(x, n) == (x.t = "num" /\ x.n > n * x.d) \/ (x.t = "inf" /\ x.n > 0)

below(x, n) == (x.t = "num" /\ x.n < n * x.d) \/ (x.t = "inf" /\ x.n < 0)

absExceeds(x, n) == (x.t = "num" /\ Abs(x.n) > n * x.d) \/ x.t = "inf"

\* the four risk conditions of the request handed to assessRisk
volatilityTriggered == exceeds(req.volatilityScore, 40)

liquidityTriggered == below(req.liquidityScore, 30)

extremeMoveTriggered == absExceeds(req.coin.priceChange24h, 50)

lowVolumeTriggered == req.coin.tradingVolume24h < WEI

Levels == <<"low", "medium", "high">>

\* the reference level: 'high' outright, or the start level raised once per
\* escalating condition and saturating at 'high'
referenceLevel ==
  IF exceeds(req.volatilityScore, 70) \/ extremeMoveTriggered THEN "high"
  ELSE LET steps == (IF volatilityTriggered THEN 1 ELSE 0)
                    + (IF liquidityTriggered THEN 1 ELSE 0)
                    + (IF lowVolumeTriggered THEN 1 ELSE 0)
       IN  Levels[(IF steps > 2 THEN 2 ELSE steps) + 1]

\* one factor per triggered condition, in the order of the checks
referenceFactors ==
  (IF exceeds(req.volatilityScore, 70) THEN <<"High price volatility">>
   ELSE IF volatilityTriggered THEN <<"Moderate price volatility">> ELSE <<>>)
  \o (IF liquidityTriggered THEN <<"Low liquidity">> ELSE <<>>)
  \o (IF extremeMoveTriggered THEN <<"Extreme price movement">> ELSE <<>>)
  \o (IF lowVolumeTriggered THEN <<"Low trading volume">> ELSE <<>>)

isRiskFactor(factor) == factor # "Stable market conditions"

\* C23: the level assessRisk returns is the reference level ('high' if
\* volatilityScore > 70 or |priceChange24h| > 50, otherwise 'medium' or
\* 'low' by the volatility band, raised one level per condition among
\* liquidityScore < 30 and volume < 1 unit, saturating at 'high'), and the
\* factors of the triggered conditions appear once each in the order
\* volatility, liquidity, extreme price movement, low volume.
Thm_C23 ==
  last.op = "assessRisk" =>
    /\ last.out.val.level = referenceLevel
    /\ SelectSeq(last.out.val.factors, isRiskFactor) = referenceFactors

Wit_C23 ==
  /\ last.op = "assessRisk"
  /\ req.volatilityScore = Num(41, 1)
  /\ req.liquidityScore = Num(29, 1)
  /\ ~extremeMoveTriggered /\ ~lowVolumeTriggered
  /\ last.out.val.level = "high"
  /\ last.out.val.factors = <<"Moderate price volatility", "Low liquidity">>

anyTriggered ==
  volatilityTriggered \/ liquidityTriggered \/ extremeMoveTriggered \/ lowVolumeTriggered

\* C24: assessRisk never returns an empty factor list; the list is exactly
\* <<'Stable market conditions'>> iff none of the four conditions
\* triggered, and then the level is 'low'; when any condition triggers the
\* level is 'medium' or 'high' and the stable entry is absent.
Thm_C24 ==
  last.op = "assessRisk" =>
    /\ Len(last.out.val.factors) > 0
    /\ (last.out.val.factors = <<"Stable market conditions">>) <=> ~anyTriggered
    /\ ~anyTriggered => last.out.val.level = "low"
    /\ anyTriggered =>
         /\ last.out.val.level \in {"medium", "high"}
         /\ \A i \in DOMAIN last.out.val.factors : isRiskFactor(last.out.val.factors[i])

Wit_C24 ==
  /\ last.op = "assessRisk"
  /\ req.volatilityScore = Num(40, 1)
  /\ req.liquidityScore = Num(30, 1)
  /\ req.coin.tradingVolume24h = WEI
  /\ req.coin.priceChange24h = Num(50, 1)
  /\ last.out.val = [level |-> "low", factors |-> <<"Stable market conditions">>]

\* C25: the liquidityScore in the bundle of calculatePricingData is the
\* specified weighted sum (volume / 10 up to 40, market cap / 100 up to 30,
\* the recency tier, the price-stability tier, capped at 100), that is the
\* calculator's calculateLiquidityScore of the same snapshot, whatever
\* last trade time is handed to it.
Cex_C25 ==
  (last.op = "calculatePricingData" /\ last.out.ok) =>
    \E lastTradeTime \in {None} \cup {Some(time) : time \in 0 .. now} :
      last.out.val.liquidityScore =
        calculateLiquidityScore(Some(req.coin), Some(req.coin.tradingVolume24h),
                                lastTradeTime, now)

\* the stability points of the tiers stated in percent points
stabilityTier(change) ==
  IF Abs(change.n) < 5 * change.d THEN 10
  ELSE IF Abs(change.n) < 10 * change.d THEN 7
  ELSE IF Abs(change.n) < 20 * change.d THEN 4
  ELSE 1

\* C26: the price-stability tier of the calculator's liquidity score, with
\* priceChange24h in percent points: |change| < 5 gives 10 points, < 10
\* gives 7, < 20 gives 4, otherwise 1 (priceChange24h = 3 receives 10).
\* Read off a call with no volume, no market cap and no last trade time,
\* where the score is the stability points alone.
Cex_C26 ==
  (/\ last.op = "calculateLiquidityScore"
   /\ IsSome(req.coinData) /\ Val(req.coinData).marketCap = 0
   /\ ~Truthy(req.tradingVolume24h) /\ ~IsSome(req.lastTradeTime)) =>
    last.out = Num(stabilityTier(Val(req.coinData).priceChange24h), 1)

\* the quote for the last trade's supply, amount and signals in the given
\* direction
tradeInDirection(isBuy) ==
  calculateTradePrice(curve, req.supply, last.tradeAmount, isBuy, req.coinData,
                      req.tradingVolume24h, req.lastTradeTime, now, Num(0, 1))

\* C27: for the same currentSupply, tradeAmount and signals, whenever the
\* buy quote and the sell quote are both returned they have the same
\* inputAmount (the trade amount), outputAmount (floor(tradeAmount *
\* currentPrice / 10^18), at the pre-trade price), fee and minimumReceived.
Thm_C27 ==
  (/\ last.op = "calculateTradePrice" /\ last.out.ok
   /\ tradeInDirection(~last.isBuy).ok) =>
    LET other == tradeInDirection(~last.isBuy).val
    IN  /\ last.out.val.inputAmount = last.tradeAmount
        /\ other.inputAmount = last.tradeAmount
        /\ last.out.val.outputAmount = (last.tradeAmount * priceAt(req.supply).val) \div WEI
        /\ other.outputAmount = last.out.val.outputAmount
        /\ other.fee = last.out.val.fee
        /\ other.minimumReceived = last.out.val.minimumReceived

Wit_C27 ==
  /\ last.op = "calculateTradePrice" /\ last.out.ok /\ ~last.isBuy
  /\ last.tradeAmount > 0
  /\ last.out.val.outputAmount > 0
  /\ last.out.val.fee > 0
  /\ tradeInDirection(TRUE).ok
  /\ tradeInDirection(TRUE).val.priceImpact # last.out.val.priceImpact

\* the provider instances handed to callers so far
receivedProviders == UNION { frame.received[t] : t \in Tasks }

\* C28: between disconnects the wallet manager initializes its provider at
\* most once, however the concurrent initialize() and connect() calls
\* interleave at the asynchronous EthereumProvider.init, and every caller
\* receives the same provider instance.
Cex_C28 ==
  (frame.op = "wallet" /\ frame.disconnects = 0) =>
    /\ wallet.instances <= 1
    /\ Cardinality(receivedProviders) <= 1

\* C29: in every configuration the revenue manager reaches (the default
\* 70/20/10 split, or what updateDistributionConfig calls leave),
\* calculateRevenueDistribution(totalAmount) returns exactly three shares,
\* creator, platform, holder in that order, each floor(totalAmount *
\* percentage / 100), whose amounts sum to at most totalAmount.
Cex_C29 ==
  last.op = "calculateRevenueDistribution" =>
    LET shares == last.out.val
    IN  /\ Len(shares) = 3
        /\ shares[1].type = "creator" /\ shares[2].type = "platform"
        /\ shares[3].type = "holder"
        /\ \A i \in 1 .. 3 :
             shares[i].amount = (last.totalAmount * shares[i].percentage) \div 100
        /\ shares[1].amount + shares[2].amount + shares[3].amount <= last.totalAmount

====
